---------------------------- MODULE Spec2Model ----------------------------
(***************************************************************************)
(* A model of principalmap/edgeconditions/util.py: the testers that drive  *)
(* the IAM policy-simulation API in batches of at most twenty resources,   *)
(* retrying throttled calls.                                               *)
(*                                                                         *)
(* Encoding.  Action names and resource ARNs are naturals; the wildcard    *)
(* resource '*' is Wildcard and the action 'iam:PassRole' is PassRole.     *)
(* A Python dict is a record whose DOMAIN is the set of keys it holds, so  *)
(* "key in dict" is "key \in DOMAIN dict" and a read of a missing key is a *)
(* KeyError.  An error code is the sequence of its characters.  A          *)
(* candidate AWSNode is a record [id, label]: id is the object's identity  *)
(* (its position in the input list), label the ARN the code reads.         *)
(***************************************************************************)
EXTENDS Integers, Sequences, FiniteSets, TLC

(* ------------------------------ bounds --------------------------------- *)

\* Longest resource list / candidate list tried.
MaxLen == 45

\* Action lists tried: None, the lengths 0..MaxActs, and the limit lengths
\* ActionLimit and ActionLimit + 1.
MaxActs == 2

\* Most throttling errors the remote answers with while one list of chunks
\* is being sent.
MaxThrottle == 2

\* Candidate labels repeat with this period in the "repeating" labelling.
LabelPeriod == 7

\* The most evaluation results of a response handed to findInEvalResults.
MaxEvals == 2

(* ------------------------- program constants --------------------------- *)

\* util.py:45,49,54,55 and 131,134,139,140: the chunk size.
ChunkSize == 20

\* util.py:39: most actions test_node_access accepts.
ActionLimit == 20

\* util.py:42: the resource '*'.
Wildcard == 0

\* util.py:172,210: the action 'iam:PassRole'.
PassRole == 0

(* ------------------------------ helpers -------------------------------- *)

Min(a, b) == IF a < b THEN a ELSE b

Max(a, b) == IF a > b THEN a ELSE b

\* ceil(n / d) for n >= 0, d > 0.
CeilDiv(n, d) == (n + d - 1) \div d

RECURSIVE Concat(_)
\* The concatenation of a sequence of sequences.
Concat(ss) == IF ss = <<>> THEN <<>> ELSE Head(ss) \o Concat(Tail(ss))

\* Slice with the end index taken as inclusive.
Slice_Inclusive(list, x, y) ==
    SubSeq(list, Min(x, Len(list)) + 1, Min(y + 1, Len(list)))

\* Python's list[x:y] for 0 <= x, 0 <= y.
Slice(list, x, y) == SubSeq(list, Min(x, Len(list)) + 1, Min(y, Len(list)))

\* Python's "sub in s" on strings, both given as character sequences.
Contains(sub, s) ==
    \E i \in 0..(Len(s) - Len(sub)) : SubSeq(s, i + 1, i + Len(sub)) = sub


(* ------------------------------ chunking ------------------------------- *)

\* util.py:51-52 and 136-137: the slice end never passes the list's end.
ClampY(y, n) == IF y > n THEN n ELSE y

\* NextX with a stride one short of the chunk size.
NextX_Short(x, n) == IF x + ChunkSize - 1 > n THEN n ELSE x + ChunkSize - 1

\* util.py:54,56-57 and 139,141-142: the next slice start, held at the
\* list's end.
NextX(x, n) == IF x + ChunkSize > n THEN n ELSE x + ChunkSize

RECURSIVE ChunkLoop(_, _, _, _)
\* util.py:50-57 and 135-142: the while loop, from indices x, y with the
\* chunks acc appended so far.
ChunkLoop(list, x, y, acc) ==
    IF x = Len(list)
    THEN acc
    ELSE LET yy == ClampY(y, Len(list))
         IN  ChunkLoop(list, NextX(x, Len(list)), yy + ChunkSize,
                       Append(acc, Slice(list, x, yy)))

\* ChunkList with the test for a long list off by one.
ChunkList_Lax(list) ==
    IF Len(list) > ChunkSize + 1
    THEN ChunkLoop(list, 0, ChunkSize, <<>>)
    ELSE <<list>>

\* util.py:45-61 and 131-146: the lists handed to _test_less/_test_less_pass
\* one after another: the chunks of a list longer than ChunkSize, the list
\* itself otherwise.
ChunkList(list) ==
    IF Len(list) > ChunkSize
    THEN ChunkLoop(list, 0, ChunkSize, <<>>)
    ELSE <<list>>

(* ------------------------------- errors -------------------------------- *)

Chars_Throttling == <<"T","h","r","o","t","t","l","i","n","g">>

Chars_AccessDenied == <<"A","c","c","e","s","s","D","e","n","i","e","d">>

\* The error codes the remote answers with.
ErrorCodes == {Chars_Throttling, Chars_AccessDenied}

\* IsThrottle with the marker 'Throttle', which 'Throttling' does not hold.
IsThrottle_Exact(code) == Contains(<<"T","h","r","o","t","t","l","e">>, code)

\* IsThrottle taking every error code for throttling.
IsThrottle_Any(code) == Len(code) > 0

\* util.py:81 and 178: 'Thrott' in err.response['Error']['Code'].
IsThrottle(code) == Contains(<<"T","h","r","o","t","t">>, code)

(* ------------------------------ the remote ----------------------------- *)

\* The policies the simulated principal may have.
Policies == {"allowAll", "allowOdd", "denyAll"}

\* The shapes of a successful response: "full" holds one evaluation result
\* per requested action and one resource-specific result per requested
\* resource; the others drop or repeat entries, or lack a key.
Shapes == {"full", "terse", "doubled", "empty",
           "noResults", "noDecision", "noRSR"}

\* The remote's decision on one action and one resource.
Decision(policy, action, arn) ==
    IF policy = "allowAll" \/ (policy = "allowOdd" /\ (action + arn) % 2 = 1)
    THEN "allowed"
    ELSE "implicitDeny"

\* The resources a request names: '*' when it names none (util.py:244-250).
RequestArns(request) ==
    IF "ResourceArns" \in DOMAIN request
    THEN request.ResourceArns
    ELSE <<Wildcard>>

\* The per-resource results of one action, one per requested resource.
ResourceResults(policy, action, arns) ==
    [i \in 1..Len(arns) |->
        [EvalResourceName |-> arns[i],
         EvalResourceDecision |-> Decision(policy, action, arns[i])]]

\* One evaluation result of a response of the given shape.
EvalResult(policy, shape, action, arns) ==
    LET full == ResourceResults(policy, action, arns)
        rsr  == CASE shape = "terse"   -> SubSeq(full, 1, Len(full) - 1)
                  [] shape = "doubled" -> full \o full
                  [] OTHER             -> full
        first == IF arns = <<>> THEN Wildcard ELSE arns[1]
        top  == [EvalActionName |-> action, EvalResourceName |-> first]
        dec  == [EvalDecision |-> Decision(policy, action, first)]
    IN  CASE shape = "noDecision" ->
               top @@ [ResourceSpecificResults |-> rsr]
          [] shape = "noRSR" -> top @@ dec
          [] OTHER -> top @@ dec @@ [ResourceSpecificResults |-> rsr]

\* What simulate_principal_policy answers to a request when it succeeds.
Respond(policy, shape, request) ==
    LET acts == request.ActionNames
        arns == RequestArns(request)
    IN  CASE shape = "noResults" -> [IsTruncated |-> FALSE]
          [] shape = "empty" ->
               [IsTruncated |-> FALSE, EvaluationResults |-> <<>>]
          [] OTHER ->
               [IsTruncated |-> FALSE,
                EvaluationResults |->
                    [i \in 1..Len(acts) |->
                        EvalResult(policy, shape, acts[i], arns)]]

(* ------------------------------ extraction ----------------------------- *)

\* The value of an extraction: err is "" or the exception it raises.
Value(v) == [err |-> "", val |-> v]

Raise(e) == [err |-> e, val |-> <<>>]

\* _extract_results passing over what it cannot read.
_extract_results_Lenient(response) ==
    IF "EvaluationResults" \notin DOMAIN response
    THEN Value(<<>>)
    ELSE LET ers == SelectSeq(response.EvaluationResults,
                        LAMBDA er : {"EvalActionName", "EvalResourceName",
                                     "EvalDecision"} \subseteq DOMAIN er)
         IN  Value([i \in 1..Len(ers) |->
                      <<ers[i].EvalActionName, ers[i].EvalResourceName,
                        ers[i].EvalDecision = "allowed">>])

\* util.py:96-105.
_extract_results(response) ==
    IF "EvaluationResults" \notin DOMAIN response
    THEN Raise("KeyError")
    ELSE LET ers == response.EvaluationResults
         IN  IF \E i \in 1..Len(ers) :
                   ~ ({"EvalActionName", "EvalResourceName", "EvalDecision"}
                         \subseteq DOMAIN ers[i])
             THEN Raise("KeyError")
             ELSE Value([i \in 1..Len(ers) |->
                          <<ers[i].EvalActionName, ers[i].EvalResourceName,
                            ers[i].EvalDecision = "allowed">>])

\* util.py:113-118: the tuples of one evaluation result.
ResourceSpecificTuples(evalresult) ==
    LET rsrs == evalresult.ResourceSpecificResults
    IN  [j \in 1..Len(rsrs) |->
            <<evalresult.EvalActionName, rsrs[j].EvalResourceName,
              rsrs[j].EvalResourceDecision = "allowed">>]

\* util.py:108-119.
_extract_resource_specific_results(response) ==
    IF "EvaluationResults" \notin DOMAIN response
    THEN Raise("KeyError")
    ELSE LET ers == response.EvaluationResults
         IN  IF \E i \in 1..Len(ers) :
                   ~ ({"EvalActionName", "ResourceSpecificResults"}
                         \subseteq DOMAIN ers[i])
             THEN Raise("KeyError")
             ELSE Value(Concat([i \in 1..Len(ers) |->
                                  ResourceSpecificTuples(ers[i])]))

\* ExtractFor without the branch for several resources.
ExtractFor_Single(resourceList, response) == _extract_results(response)

\* ExtractFor without the branch for one resource.
ExtractFor_Multi(resourceList, response) ==
    _extract_resource_specific_results(response)

\* util.py:88-91: the extraction _test_less applies to a response.
ExtractFor(resourceList, response) ==
    IF Len(resourceList) > 1
    THEN _extract_resource_specific_results(response)
    ELSE _extract_results(response)

\* PassMatch without the test of the decision.
PassMatch_NameOnly(candidate, rsr) == candidate.label = rsr.EvalResourceName

\* util.py:192: the test of one candidate against one result.
PassMatch(candidate, rsr) ==
    /\ candidate.label = rsr.EvalResourceName
    /\ rsr.EvalResourceDecision = "allowed"

\* util.py:191-193: the entries one candidate adds, one per matching result.
PassEntries(candidate, rsrs) ==
    LET hits == SelectSeq(rsrs, LAMBDA rsr : PassMatch(candidate, rsr))
    IN  [j \in 1..Len(hits) |-> candidate]

\* util.py:188-194.
_extractPassResults(response, candidates) ==
    IF candidates = <<>> THEN Value(<<>>)
    ELSE IF "EvaluationResults" \notin DOMAIN response THEN Raise("KeyError")
    ELSE IF response.EvaluationResults = <<>> THEN Raise("IndexError")
    ELSE IF "ResourceSpecificResults" \notin DOMAIN response.EvaluationResults[1]
    THEN Raise("KeyError")
    ELSE Value(Concat([i \in 1..Len(candidates) |->
                 PassEntries(candidates[i],
                     response.EvaluationResults[1].ResourceSpecificResults)]))

(* ------------------------------- inputs -------------------------------- *)

None == [none |-> TRUE, list |-> <<>>]

Some(l) == [none |-> FALSE, list |-> l]

\* The ARNs 1..n in order.
Arns(n) == [i \in 1..n |-> i]

\* The label of the i-th candidate under a labelling.
LabelOf(labelling, i) ==
    IF labelling = "repeating" THEN ((i - 1) % LabelPeriod) + 1 ELSE i

\* n candidate nodes.
Nodes(n, labelling) ==
    [i \in 1..n |-> [id |-> i, label |-> LabelOf(labelling, i)]]

\* 'user/n', 'user/p/n', 'root' and 'user/'.
PrincipalArns ==
    { <<"u","s","e","r","/","n">>, <<"u","s","e","r","/","p","/","n">>,
      <<"r","o","o","t">>, <<"u","s","e","r","/">> }

\* The principal test_node_access and testMassPass are called with.
TheNode == <<"u","s","e","r","/","n">>

ActionLists ==
    {None} \cup {Some(Arns(n)) :
                   n \in (0..MaxActs) \cup {ActionLimit, ActionLimit + 1}}

ResourceLists == {None} \cup {Some(Arns(n)) : n \in 0..MaxLen}

CandidateLists ==
    {Nodes(n, l) : n \in 0..MaxLen, l \in {"distinct", "repeating"}}

\* What get_context_keys_for_principal_policy may list.
KeyLists ==
    { <<>>, <<"aws:username">>, <<"iam:PassedToService">>,
      <<"aws:username", "aws:username">>,
      <<"aws:SourceIp", "iam:PassedToService", "aws:username">> }

Ops == {"test_node_access", "testMassPass", "testPassRole", "testAction"}

\* The arguments an operation may be called with.
Inputs(o) ==
    CASE o = "test_node_access" ->
           [node : {TheNode}, actionList : ActionLists,
            resourceList : ResourceLists]
      [] o = "testMassPass" ->
           [passer : {TheNode}, candidates : CandidateLists,
            service : {"ec2"}]
      [] o = "testPassRole" ->
           [passer : {TheNode}, passed : 1..2, targetservice : {"ec2"}]
      [] o = "testAction" ->
           [PolicySourceArn : PrincipalArns, ActionName : 1..2,
            ResourceArn : {None, Some(<<1>>), Some(<<2>>)}]

(* ------------------------------- state --------------------------------- *)

VARIABLES
    op,               \* the operation called
    args,             \* its arguments
    remote,           \* [policy, shape] of the remote's latest answer
    pc,               \* "start", "for", "call" or "done"
    resourceList,     \* test_node_access: resourceList after line 42
    ai,               \* test_node_access: the index of the action in hand
    chunks,           \* resourceListList / roleListList
    ci,               \* the index of the chunk in hand
    x, y,             \* the chunking loop: the indices x and y
    context_response, \* testPassRole, testAction: context_response
    context_entries,  \* testPassRole, testAction: context_entries
    result,           \* result / results: the list built so far
    calls,            \* the simulate calls issued for the list of chunks
                      \* in hand: the request, the error code answered
                      \* (<<>> for none) and the response
    slept,            \* the time.sleep(1) calls made for that list
    outcome,          \* "running", "returned" or the exception raised
    error,            \* the error code of a raised ClientError
    value             \* testPassRole, testAction: the value returned

vars == <<op, args, remote, pc, resourceList, ai, chunks, ci, x, y,
          context_response, context_entries, result, calls, slept, outcome, error, value>>

\* The ways the remote may answer a call.
Remotes == [policy : Policies, shape : Shapes]

\* The remotes that answer every call of a run in the same way.
SteadyRemotes ==
    [policy : {"allowOdd", "allowAll"}, shape : Shapes \ {"doubled"}]

Init ==
    /\ op \in Ops
    /\ args \in Inputs(op)
    /\ remote \in SteadyRemotes
    /\ pc = "start"
    /\ resourceList = <<>>
    /\ ai = 0
    /\ chunks = <<>>
    /\ ci = 0
    /\ x = 0
    /\ y = 0
    /\ context_response = [ContextKeyNames |-> <<>>]
    /\ context_entries = <<>>
    /\ result = <<>>
    /\ calls = <<>>
    /\ slept = 0
    /\ outcome = "running"
    /\ error = <<>>
    /\ value = "unset"

(* ---------------------------- the call log ----------------------------- *)

\* A call that succeeded, and one answered with an error.
Answered(request, response) ==
    [request |-> request, code |-> <<>>, response |-> response]

Refused(request, code) == [request |-> request, code |-> code]

\* The codes with which the remote signals rate limiting.
ThrottleCodes == {Chars_Throttling}

\* How many of the logged calls the remote throttled.
Throttled(log) ==
    Cardinality({i \in 1..Len(log) : log[i].code \in ThrottleCodes})

\* The remote may answer the next call with this error code.
MayRefuse(code) ==
    /\ code \in ErrorCodes
    /\ code \in ThrottleCodes => Throttled(calls) < MaxThrottle

\* A failure answered by returning what was gathered so far.
RaiseOut_Partial(exception, code) ==
    /\ outcome' = "returned"
    /\ error' = code
    /\ result' = result
    /\ pc' = "done"

\* A raise: the locals are lost with the frame.
RaiseOut(exception, code) ==
    /\ outcome' = exception
    /\ error' = code
    /\ result' = <<>>
    /\ pc' = "done"

(* --------------------------- test_node_access -------------------------- *)

\* BadActionList with the limit off by one.
BadActionList_Lax(actionList) ==
    \/ actionList.none
    \/ Len(actionList.list) > ActionLimit + 1
    \/ Len(actionList.list) = 0

\* util.py:39: the action list is refused.
BadActionList(actionList) ==
    \/ actionList.none
    \/ Len(actionList.list) > ActionLimit
    \/ Len(actionList.list) = 0

\* ResourcesOrWildcard without the substitution of '*'.
ResourcesOrWildcard_Keep(rl) == rl.list

\* util.py:41-42: the resource list tested.
ResourcesOrWildcard(rl) ==
    IF rl.none \/ Len(rl.list) < 1 THEN <<Wildcard>> ELSE rl.list

\* util.py:74-78: the request of _test_less.
LessRequest(node, action, rlist) ==
    [PolicySourceArn |-> node, ActionNames |-> <<action>>,
     ResourceArns |-> rlist]

\* util.py:38-42: the checks on entry.
TnaStart ==
    /\ op = "test_node_access" /\ pc = "start"
    /\ IF BadActionList(args.actionList)
       THEN /\ RaiseOut("ValueError", <<>>)
            /\ UNCHANGED resourceList
       ELSE /\ resourceList' = ResourcesOrWildcard(args.resourceList)
            /\ result' = <<>>
            /\ pc' = "for"
            /\ UNCHANGED <<outcome, error>>
    /\ UNCHANGED <<op, args, x, y, remote, ai, chunks, ci, context_response, context_entries,
                   calls, slept, value>>

\* util.py:44-57: the next action is taken up and the resource list chunked.
TnaFor ==
    /\ op = "test_node_access" /\ pc = "for"
    /\ ai < Len(args.actionList.list)
    /\ ai' = ai + 1
    /\ chunks' = ChunkList(resourceList)
    /\ ci' = 1
    /\ calls' = <<>>
    /\ slept' = 0
    /\ pc' = "call"
    /\ UNCHANGED <<op, args, x, y, remote, resourceList, context_response, context_entries, result,
                   outcome, error, value>>

\* util.py:63: every action is done.
TnaReturn ==
    /\ op = "test_node_access" /\ pc = "for"
    /\ ai = Len(args.actionList.list)
    /\ outcome' = "returned"
    /\ pc' = "done"
    /\ UNCHANGED <<op, args, x, y, remote, resourceList, ai, chunks, ci,
                   context_response, context_entries, result, calls, slept, error, value>>

\* The request _test_less sends for the chunk in hand.
TnaRequest == LessRequest(args.node, args.actionList.list[ai], chunks[ci])

\* util.py:58-61: after a chunk, the next chunk or the next action.
AfterChunk ==
    IF ci < Len(chunks)
    THEN ci' = ci + 1 /\ pc' = "call"
    ELSE ci' = ci /\ pc' = "for"

\* Extend putting the new entries in front.
Extend_Front(list, more) == more \o list

\* util.py:59, 61, 144 and 146: list.extend.
Extend(list, more) == list \o more

\* util.py:72-79, 88-93 and 59/61: the call succeeds, the response is
\* extracted and the tuples are added to the result.
TestLessOk(r) ==
    /\ op = "test_node_access" /\ pc = "call"
    /\ LET response == Respond(r.policy, r.shape, TnaRequest)
           ext == ExtractFor(chunks[ci], response)
       IN  /\ remote' = r
           /\ calls' = Append(calls, Answered(TnaRequest, response))
           /\ IF ext.err # ""
              THEN RaiseOut(ext.err, <<>>) /\ UNCHANGED ci
              ELSE /\ result' = Extend(result, ext.val)
                   /\ AfterChunk
                   /\ UNCHANGED <<outcome, error>>
    /\ UNCHANGED <<op, args, x, y, resourceList, ai, chunks, context_response, context_entries,
                   slept, value>>

\* util.py:80-83: a throttling error: sleep, then go round the loop again.
TestLessThrottled ==
    /\ op = "test_node_access" /\ pc = "call"
    /\ \E code \in ErrorCodes :
          /\ MayRefuse(code)
          /\ IsThrottle(code)
          /\ calls' = Append(calls, Refused(TnaRequest, code))
    /\ slept' = slept + 1
    /\ UNCHANGED <<op, args, x, y, remote, pc, resourceList, ai, chunks, ci,
                   context_response, context_entries, result, outcome, error, value>>

\* util.py:85-86: any other error is raised again.
TestLessFailed ==
    /\ op = "test_node_access" /\ pc = "call"
    /\ \E code \in ErrorCodes :
          /\ MayRefuse(code)
          /\ ~ IsThrottle(code)
          /\ calls' = Append(calls, Refused(TnaRequest, code))
          /\ RaiseOut("ClientError", code)
    /\ UNCHANGED <<op, args, x, y, remote, resourceList, ai, chunks, ci,
                   context_response, context_entries, slept, value>>

(* ------------------------------ testMassPass --------------------------- *)

\* util.py:159-163: the context entry of _test_less_pass and testPassRole.
PassedToService(service) ==
    [ContextKeyName |-> "iam:PassedToService",
     ContextKeyValues |-> <<service>>,
     ContextKeyType |-> "string"]

\* util.py:165-166: the labels of the candidates.
ArnList(candidates) == [i \in 1..Len(candidates) |-> candidates[i].label]

\* util.py:170-175: the request of _test_less_pass.
LessPassRequest(passer, candidates, service) ==
    [PolicySourceArn |-> passer, ActionNames |-> <<PassRole>>,
     ResourceArns |-> ArnList(candidates),
     ContextEntries |-> <<PassedToService(service)>>]

\* util.py:127-142: nothing to test, or the candidates are chunked.
MassPassStart ==
    /\ op = "testMassPass" /\ pc = "start"
    /\ IF Len(args.candidates) = 0
       THEN /\ outcome' = "returned"
            /\ pc' = "done"
            /\ UNCHANGED <<chunks, ci>>
       ELSE /\ chunks' = ChunkList(args.candidates)
            /\ ci' = 1
            /\ pc' = "call"
            /\ UNCHANGED outcome
    /\ result' = <<>>
    /\ UNCHANGED <<op, args, x, y, remote, resourceList, ai, context_response, context_entries,
                   calls, slept, error, value>>

\* The request _test_less_pass sends for the chunk in hand.
PassRequest == LessPassRequest(args.passer, chunks[ci], args.service)

\* util.py:143-148: after a chunk, the next chunk or the return.
AfterRoleList ==
    IF ci < Len(chunks)
    THEN ci' = ci + 1 /\ pc' = "call" /\ UNCHANGED outcome
    ELSE ci' = ci /\ pc' = "done" /\ outcome' = "returned"

\* util.py:168-176, 185-186 and 144/146: the call succeeds and the chunk's
\* candidates are filtered into the results.
TestLessPassOk(r) ==
    /\ op = "testMassPass" /\ pc = "call"
    /\ LET response == Respond(r.policy, r.shape, PassRequest)
           ext == _extractPassResults(response, chunks[ci])
       IN  /\ remote' = r
           /\ calls' = Append(calls, Answered(PassRequest, response))
           /\ IF ext.err # ""
              THEN RaiseOut(ext.err, <<>>) /\ UNCHANGED ci
              ELSE /\ result' = Extend(result, ext.val)
                   /\ AfterRoleList
                   /\ UNCHANGED error
    /\ UNCHANGED <<op, args, x, y, resourceList, ai, chunks, context_response, context_entries,
                   slept, value>>

\* util.py:177-180: a throttling error: sleep, then go round the loop again.
TestLessPassThrottled ==
    /\ op = "testMassPass" /\ pc = "call"
    /\ \E code \in ErrorCodes :
          /\ MayRefuse(code)
          /\ IsThrottle(code)
          /\ calls' = Append(calls, Refused(PassRequest, code))
    /\ slept' = slept + 1
    /\ UNCHANGED <<op, args, x, y, remote, pc, resourceList, ai, chunks, ci,
                   context_response, context_entries, result, outcome, error, value>>

\* util.py:182-183: any other error is raised again.
TestLessPassFailed ==
    /\ op = "testMassPass" /\ pc = "call"
    /\ \E code \in ErrorCodes :
          /\ MayRefuse(code)
          /\ ~ IsThrottle(code)
          /\ calls' = Append(calls, Refused(PassRequest, code))
          /\ RaiseOut("ClientError", code)
    /\ UNCHANGED <<op, args, x, y, remote, resourceList, ai, chunks, ci,
                   context_response, context_entries, slept, value>>

(* ------------------------ testPassRole, testAction --------------------- *)

\* The elements of a list.
Range(list) == {list[i] : i \in 1..Len(list)}

RECURSIVE SplitFrom(_, _, _)
\* The tokens of s split at '/', given the tokens done and the one begun.
SplitFrom(s, done, begun) ==
    IF s = <<>> THEN Append(done, begun)
    ELSE IF Head(s) = "/" THEN SplitFrom(Tail(s), Append(done, begun), <<>>)
    ELSE SplitFrom(Tail(s), done, Append(begun, Head(s)))

\* util.py:226: PolicySourceArn.split('/').
Split(s) == SplitFrom(s, <<>>, <<>>)

\* util.py:227-231: the entry for 'aws:username'.
UsernameEntry(key, arn) ==
    LET tokens == Split(arn)
    IN  [ContextKeyName |-> key,
         ContextKeyValues |-> <<tokens[Len(tokens)]>>,
         ContextKeyType |-> "string"]

RECURSIVE ContextLoop_NoFlag(_, _, _, _)
\* The loop without the flag username_key_used: an entry per listed key.
ContextLoop_NoFlag(keys, arn, entries, used) ==
    IF keys = <<>> THEN entries
    ELSE IF Head(keys) = "aws:username"
    THEN ContextLoop_NoFlag(Tail(keys), arn,
                     Append(entries, UsernameEntry(Head(keys), arn)), TRUE)
    ELSE ContextLoop_NoFlag(Tail(keys), arn, entries, used)

RECURSIVE ContextLoop(_, _, _, _)
\* util.py:223-232: the loop over the key names, from the entries built so
\* far and the flag username_key_used.
ContextLoop(keys, arn, entries, used) ==
    IF keys = <<>> THEN entries
    ELSE IF Head(keys) = "aws:username" /\ ~ used
    THEN ContextLoop(Tail(keys), arn,
                     Append(entries, UsernameEntry(Head(keys), arn)), TRUE)
    ELSE ContextLoop(Tail(keys), arn, entries, used)

\* util.py:201-207: the context entries of testPassRole.
PassRoleEntries(keys, targetservice) ==
    IF "iam:PassedToService" \in Range(keys)
    THEN <<PassedToService(targetservice)>>
    ELSE <<>>

\* util.py:208-213: the request of testPassRole.
PassRoleRequest ==
    [PolicySourceArn |-> args.passer, ActionNames |-> <<PassRole>>,
     ResourceArns |-> <<args.passed>>, ContextEntries |-> context_entries]

\* util.py:234-250: the request of testAction, with or without a resource.
ActionRequest ==
    IF ~ args.ResourceArn.none
    THEN [PolicySourceArn |-> args.PolicySourceArn,
          ActionNames |-> <<args.ActionName>>,
          ResourceArns |-> args.ResourceArn.list,
          ContextEntries |-> context_entries]
    ELSE [PolicySourceArn |-> args.PolicySourceArn,
          ActionNames |-> <<args.ActionName>>,
          ContextEntries |-> context_entries]

\* A Python bool as returned.
Bool(b) == IF b THEN "True" ELSE "False"

\* util.py:214-215: what testPassRole makes of a response.
PassRoleValue(response) ==
    IF "EvaluationResults" \in DOMAIN response
    THEN IF response.EvaluationResults = <<>> THEN Raise("IndexError")
         ELSE IF "EvalDecision" \in DOMAIN response.EvaluationResults[1]
         THEN Value(Bool(response.EvaluationResults[1].EvalDecision
                            = "allowed"))
         ELSE Value("None")
    ELSE Value("None")

\* util.py:252-255: what testAction makes of a response.
ActionValue(response) ==
    IF "EvaluationResults" \in DOMAIN response
    THEN IF response.EvaluationResults = <<>> THEN Raise("IndexError")
         ELSE IF "EvalDecision" \in DOMAIN response.EvaluationResults[1]
         THEN Value(Bool(response.EvaluationResults[1].EvalDecision
                            = "allowed"))
         ELSE Raise("Exception")
    ELSE Raise("Exception")

\* util.py:200-207 and 220-233: the context keys are fetched and the
\* context entries built.
SingleStart ==
    /\ op \in {"testPassRole", "testAction"} /\ pc = "start"
    /\ \E keys \in KeyLists :
          /\ context_response' = [ContextKeyNames |-> keys]
          /\ context_entries' =
                 IF op = "testPassRole"
                 THEN PassRoleEntries(keys, args.targetservice)
                 ELSE ContextLoop(keys, args.PolicySourceArn, <<>>, FALSE)
    /\ pc' = "call"
    /\ UNCHANGED <<op, args, x, y, remote, resourceList, ai, chunks, ci, result,
                   calls, slept, outcome, error, value>>

\* util.py:200 and 220: get_context_keys_for_principal_policy fails.
ContextKeysFailed ==
    /\ op \in {"testPassRole", "testAction"} /\ pc = "start"
    /\ \E code \in ErrorCodes : RaiseOut("ClientError", code)
    /\ UNCHANGED <<op, args, x, y, remote, resourceList, ai, chunks, ci,
                   context_response, context_entries, calls, slept, value>>

\* The request of the single tester called.
SingleRequest == IF op = "testPassRole" THEN PassRoleRequest ELSE ActionRequest

\* util.py:208-215 and 234-255: the one simulate call succeeds.
SingleOk(r) ==
    /\ op \in {"testPassRole", "testAction"} /\ pc = "call"
    /\ LET response == Respond(r.policy, r.shape, SingleRequest)
           val == IF op = "testPassRole" THEN PassRoleValue(response)
                                         ELSE ActionValue(response)
       IN  /\ remote' = r
           /\ calls' = Append(calls, Answered(SingleRequest, response))
           /\ IF val.err # ""
              THEN RaiseOut(val.err, <<>>) /\ UNCHANGED value
              ELSE /\ value' = val.val
                   /\ outcome' = "returned"
                   /\ pc' = "done"
                   /\ UNCHANGED <<result, error>>
    /\ UNCHANGED <<op, args, x, y, resourceList, ai, chunks, ci, context_response, context_entries,
                   slept>>

\* util.py:208 and 235/244: the call is not guarded: any ClientError leaves
\* the function.
SingleFailed ==
    /\ op \in {"testPassRole", "testAction"} /\ pc = "call"
    /\ \E code \in ErrorCodes :
          /\ calls' = Append(calls, Refused(SingleRequest, code))
          /\ RaiseOut("ClientError", code)
    /\ UNCHANGED <<op, args, x, y, remote, resourceList, ai, chunks, ci,
                   context_response, context_entries, slept, value>>

(* --------------------------- specifications ---------------------------- *)

\* Every operation, against a remote that answers one run in one way.
Next ==
    \/ TnaStart
    \/ TnaFor
    \/ TnaReturn
    \/ TestLessOk(remote)
    \/ TestLessThrottled
    \/ TestLessFailed
    \/ MassPassStart
    \/ TestLessPassOk(remote)
    \/ TestLessPassThrottled
    \/ TestLessPassFailed
    \/ SingleStart
    \/ ContextKeysFailed
    \/ SingleOk(remote)
    \/ SingleFailed

Spec == Init /\ [][Next]_vars

\* testMassPass against a remote that answers each call as it likes.
InitAny ==
    /\ Init
    /\ op = "testMassPass"
    /\ remote = [policy |-> "allowAll", shape |-> "full"]

NextAny ==
    \/ MassPassStart
    \/ \E r \in Remotes : TestLessPassOk(r)
    \/ TestLessPassFailed

SpecAny == InitAny /\ [][NextAny]_vars

(* ------------------------- the calls, as logged ------------------------ *)

\* The chunk operations.
Chunked == {"test_node_access", "testMassPass"}

\* The calls that succeeded, in order.
OkCalls == SelectSeq(calls, LAMBDA c : c.code = <<>>)

\* No logged call was answered with an error.
AllAnswered == \A i \in 1..Len(calls) : calls[i].code = <<>>

\* The sizes of the resource lists of the calls that succeeded.
SentSizes == [i \in 1..Len(OkCalls) |-> Len(OkCalls[i].request.ResourceArns)]

\* The resources sent by the calls that succeeded, one list after another.
SentArns == Concat([i \in 1..Len(OkCalls) |-> OkCalls[i].request.ResourceArns])

\* The list whose chunks are being sent.
ListInHand ==
    IF op = "test_node_access" THEN resourceList ELSE ArnList(args.candidates)

\* Every chunk of the list in hand has been sent and answered.
ListDone ==
    \/ op = "test_node_access" /\ pc = "for" /\ ai > 0
    \/ op = "testMassPass" /\ outcome = "returned"

(* ------------------------------- claims -------------------------------- *)

\* C1: test_node_access issues ceil(len(resources)/20) simulate calls for an
\* action when none of them is throttled or fails, and one call, with
\* ResourceArns = ['*'], when the resource list is empty or None.
C1_CallsPerAction ==
    (op = "test_node_access" /\ ListDone /\ AllAnswered) =>
        LET rl == args.resourceList
        IN  /\ \A i \in 1..Len(calls) :
                  calls[i].request.ActionNames = <<args.actionList.list[ai]>>
            /\ IF rl.none \/ rl.list = <<>>
               THEN /\ Len(calls) = 1
                    /\ calls[1].request.ResourceArns = <<Wildcard>>
               ELSE Len(calls) = CeilDiv(Len(rl.list), ChunkSize)

\* C1's case: the second of two actions took three calls for 45 resources.
C1_Witness ==
    /\ op = "test_node_access" /\ ListDone /\ AllAnswered
    /\ ai = 2
    /\ Len(args.resourceList.list) = 45
    /\ Len(calls) = 3

\* C2: when every response holds one result per requested action and one
\* per requested resource, test_node_access returns
\* len(actions) * max(1, len(resources)) tuples.
C2_TupleCount ==
    (op = "test_node_access" /\ outcome = "returned" /\ remote.shape = "full")
        => Len(result) = Len(args.actionList.list)
                           * Max(1, Len(args.resourceList.list))

\* C2's case: 20 actions on 41 resources, the last chunk a single resource.
C2_Witness ==
    /\ op = "test_node_access" /\ outcome = "returned"
    /\ remote.shape = "full"
    /\ Len(args.actionList.list) = 20
    /\ Len(args.resourceList.list) = 41
    /\ SentSizes = <<20, 20, 1>>
    /\ Len(result) = 820

\* C3: test_node_access raises ValueError, and issues no simulate call, when
\* the action list is None, empty or longer than 20.
C3_BadActionList ==
    (/\ op = "test_node_access"
     /\ pc # "start"
     /\ \/ args.actionList.none
        \/ Len(args.actionList.list) = 0
        \/ Len(args.actionList.list) > 20)
        => (outcome = "ValueError" /\ calls = <<>> /\ pc = "done")

\* C3's case: a list of 21 actions was refused.
C3_Witness ==
    /\ op = "test_node_access"
    /\ Len(args.actionList.list) = 21
    /\ outcome = "ValueError"

\* C4: the chunks sent are the list in hand cut in order: what has been sent
\* is always a prefix of the list, and the whole list when the last chunk
\* has been answered.
C4_ChunksPartition ==
    op \in Chunked =>
        /\ Len(SentArns) <= Len(ListInHand)
        /\ SentArns = SubSeq(ListInHand, 1, Len(SentArns))
        /\ ListDone => SentArns = ListInHand

\* C4's case: 45 items went out as chunks of 20, 20 and 5.
C4_Witness ==
    /\ op \in Chunked /\ ListDone
    /\ Len(ListInHand) = 45
    /\ SentSizes = <<20, 20, 5>>

\* C5: every simulate call of test_node_access and testMassPass carries
\* between 1 and 20 resources and exactly one action.
C5_CallSize ==
    op \in Chunked =>
        \A i \in 1..Len(calls) :
            /\ Len(calls[i].request.ResourceArns) \in 1..20
            /\ Len(calls[i].request.ActionNames) = 1

\* C5's case: after two throttled calls and their retries, testMassPass has
\* sent a full chunk and a last chunk of five.
C5_Witness ==
    /\ op = "testMassPass"
    /\ Throttled(calls) = 2
    /\ SentSizes = <<20, 5>>

\* The request the retry loop in hand sends for chunk j.
RequestOf(j) ==
    IF op = "test_node_access"
    THEN LessRequest(args.node, args.actionList.list[ai], chunks[j])
    ELSE LessPassRequest(args.passer, chunks[j], args.service)

\* C6: in _test_less and _test_less_pass a call answered with a throttling
\* error is followed by a call with the same arguments, after one sleep per
\* throttled call; the loop never gives up while it is throttled, and each
\* chunk gets exactly one call that succeeds: k throttled calls and then a
\* success are k + 1 calls and k sleeps.
C6_RetryOnThrottle ==
    op \in Chunked =>
        /\ \A i \in 1..Len(calls) :
              calls[i].code \in ThrottleCodes =>
                  IF i < Len(calls)
                  THEN calls[i + 1].request = calls[i].request
                  ELSE outcome = "running" /\ pc = "call"
        /\ slept = Throttled(calls)
        /\ Len(OkCalls) <= Len(chunks)
        /\ \A j \in 1..Len(OkCalls) : OkCalls[j].request = RequestOf(j)

\* C6's case: test_node_access was throttled twice on a chunk and then
\* answered: three calls with the same request, two sleeps.
C6_Witness ==
    /\ op = "test_node_access"
    /\ Len(calls) = 3
    /\ calls[1].code \in ThrottleCodes
    /\ calls[2].code \in ThrottleCodes
    /\ calls[3].code = <<>>
    /\ calls[1].request = calls[3].request
    /\ slept = 2
    /\ outcome = "running"

\* C7: in _test_less and _test_less_pass an error that is not a throttling
\* error is the last call made: it is raised to the caller at once, with no
\* sleep for it and no call after it.
C7_OtherErrorsPropagate ==
    op \in Chunked =>
        /\ \A i \in 1..Len(calls) :
              (calls[i].code # <<>> /\ calls[i].code \notin ThrottleCodes) =>
                  /\ i = Len(calls)
                  /\ outcome = "ClientError"
                  /\ error = calls[i].code
                  /\ pc = "done"
        /\ slept = Throttled(calls)

\* C7's case: the second chunk's call of testMassPass was refused with
\* AccessDenied after the first chunk's call had succeeded.
C7_Witness ==
    /\ op = "testMassPass"
    /\ Len(calls) = 2
    /\ calls[1].code = <<>>
    /\ calls[2].code = Chars_AccessDenied
    /\ calls[2].request.ResourceArns # calls[1].request.ResourceArns
    /\ outcome = "ClientError"
    /\ slept = 0

\* C8: no tester operation raises a throttling error of the simulate call
\* to its caller.
C8_ThrottlingTransparent ==
    ~ (/\ outcome = "ClientError"
       /\ calls # <<>>
       /\ calls[Len(calls)].code \in ThrottleCodes
       /\ error = calls[Len(calls)].code)

\* C9: testMassPass with n candidates returns after ceil(n/20) simulate
\* calls when none is throttled or fails; with no candidate it makes no
\* call and returns the empty list.
C9_MassPassCalls ==
    (op = "testMassPass" /\ outcome = "returned" /\ AllAnswered) =>
        /\ Len(calls) = CeilDiv(Len(args.candidates), 20)
        /\ args.candidates = <<>> => (calls = <<>> /\ result = <<>>)

\* C9's case: 25 candidates, two calls, for chunks of 20 and 5.
C9_Witness ==
    /\ op = "testMassPass" /\ outcome = "returned"
    /\ Len(args.candidates) = 25
    /\ Len(calls) = 2
    /\ SentSizes = <<20, 5>>

\* The response allows the resource named label.
AllowedIn(response, label) ==
    \E k \in 1..Len(response.EvaluationResults[1].ResourceSpecificResults) :
        LET rsr == response.EvaluationResults[1].ResourceSpecificResults[k]
        IN  rsr.EvalResourceName = label
            /\ rsr.EvalResourceDecision = "allowed"

\* C10: every candidate testMassPass holds in its results is allowed by the
\* response to the call that carried the candidate's own chunk, and the
\* results are in input order.
C10_MassPassFilter ==
    op = "testMassPass" =>
        /\ \A k \in 1..Len(result) :
              \E j \in 1..Len(OkCalls) :
                  /\ j <= Len(chunks)
                  /\ result[k] \in Range(chunks[j])
                  /\ OkCalls[j].request.ResourceArns = ArnList(chunks[j])
                  /\ AllowedIn(OkCalls[j].response, result[k].label)
        /\ \A k \in 1..(Len(result) - 1) : result[k].id <= result[k + 1].id

\* C10's case: testMassPass has returned some candidates, and left out a
\* candidate of the first chunk whose label the second chunk's response
\* allows.
C10_Witness ==
    /\ op = "testMassPass" /\ outcome = "returned"
    /\ Len(OkCalls) >= 2
    /\ result # <<>>
    /\ \E c \in Range(chunks[1]) :
          /\ c \notin Range(result)
          /\ AllowedIn(OkCalls[2].response, c.label)

\* What one action adds to the result when the steady remote answers every
\* chunk's call: the extractions of the chunks' responses, in chunk order.
TuplesOfAction(a) ==
    LET cl == ChunkList(resourceList)
    IN  Concat([j \in 1..Len(cl) |->
           ExtractFor(cl[j],
               Respond(remote.policy, remote.shape,
                   LessRequest(args.node, args.actionList.list[a], cl[j]))).val])

\* What the answered calls of the action in hand add to the result.
TuplesOfCalls ==
    Concat([j \in 1..Len(OkCalls) |->
        ExtractFor(OkCalls[j].request.ResourceArns, OkCalls[j].response).val])

\* C11: test_node_access sends its calls action by action in input order
\* and, within an action, chunk by chunk in input order, and its result is
\* the extractions of the answered calls one after another in that order.
C11_CallOrder ==
    (op = "test_node_access" /\ pc # "start"
        /\ outcome \in {"running", "returned"}) =>
        /\ \A i \in 1..Len(calls) :
              calls[i].request.ActionNames = <<args.actionList.list[ai]>>
        /\ \A j \in 1..Len(OkCalls) :
              OkCalls[j].request.ResourceArns = ChunkList(resourceList)[j]
        /\ result = Concat([a \in 1..(ai - 1) |-> TuplesOfAction(a)])
                       \o TuplesOfCalls

\* C11's case: two actions on 45 resources: the first action's 45 tuples in
\* resource order, then the second action's.
C11_Witness ==
    /\ op = "test_node_access" /\ outcome = "returned"
    /\ remote.shape = "full"
    /\ Len(args.actionList.list) = 2
    /\ Len(args.resourceList.list) = 45
    /\ Len(result) = 90
    /\ result[1][1] = 1 /\ result[1][2] = 1
    /\ result[45][1] = 1 /\ result[45][2] = 45
    /\ result[46][1] = 2 /\ result[46][2] = 1
    /\ result[90][1] = 2 /\ result[90][2] = 45

\* A response with no evaluation result to read a decision from.
NoEvaluationResult(response) ==
    \/ "EvaluationResults" \notin DOMAIN response
    \/ response.EvaluationResults = <<>>
    \/ "EvalDecision" \notin DOMAIN response.EvaluationResults[1]

\* C12: testAction fails with the simulation-failed Exception whenever the
\* simulate response holds no evaluation result, an empty EvaluationResults
\* list included.
C12_SimulationFailed ==
    (op = "testAction" /\ pc = "done" /\ calls # <<>>
        /\ calls[Len(calls)].code = <<>>
        /\ NoEvaluationResult(calls[Len(calls)].response)) =>
        outcome = "Exception"

\* C13: testPassRole returns the decision of a response that has one and
\* returns None, without raising, for every response that has none.
C13_PassRoleReturns ==
    (op = "testPassRole" /\ pc = "done" /\ calls # <<>>
        /\ calls[Len(calls)].code = <<>>) =>
        /\ outcome = "returned"
        /\ value = IF NoEvaluationResult(calls[Len(calls)].response)
                   THEN "None"
                   ELSE Bool(calls[Len(calls)].response
                                 .EvaluationResults[1].EvalDecision = "allowed")

\* The position of the last '/' of s, 0 when it has none.
LastSlash(s) ==
    LET at == {0} \cup {k \in 1..Len(s) : s[k] = "/"}
    IN  CHOOSE k \in at : \A other \in at : other <= k

\* The last '/'-delimited segment of s.
LastSegment(s) == SubSeq(s, LastSlash(s) + 1, Len(s))

\* C14: whatever key names the remote lists, the context entries testAction
\* passes to the simulate call hold at most one entry per key: exactly one
\* for 'aws:username', whose one value is the last '/'-delimited segment of
\* the principal, when that key is listed, and no entry otherwise.
C14_ContextEntries ==
    op = "testAction" =>
        \A i \in 1..Len(calls) :
            LET entries == calls[i].request.ContextEntries
            IN  /\ \A m, n \in 1..Len(entries) :
                       entries[m].ContextKeyName = entries[n].ContextKeyName
                           => m = n
                /\ IF "aws:username" \in Range(context_response.ContextKeyNames)
                   THEN /\ Len(entries) = 1
                        /\ entries[1].ContextKeyName = "aws:username"
                        /\ entries[1].ContextKeyValues =
                               <<LastSegment(args.PolicySourceArn)>>
                   ELSE entries = <<>>

\* C14's case: the remote lists 'aws:username' twice for 'user/p/n' and the
\* call carries the one entry with the value 'n'.
C14_Witness ==
    /\ op = "testAction" /\ Len(calls) = 1
    /\ context_response.ContextKeyNames = <<"aws:username", "aws:username">>
    /\ args.PolicySourceArn = <<"u","s","e","r","/","p","/","n">>
    /\ Len(calls[1].request.ContextEntries) = 1
    /\ calls[1].request.ContextEntries[1].ContextKeyValues = << <<"n">> >>

(* -------------------------- findInEvalResults --------------------------- *)

\* A result naming the action only.
FindMatches_ActionOnly(evalresult, action, resource) ==
    action = evalresult.EvalActionName

\* util.py:18: the result names the action and the resource.
FindMatches(evalresult, action, resource) ==
    action = evalresult.EvalActionName /\ resource = evalresult.EvalResourceName

RECURSIVE FindLoop(_, _, _)
\* util.py:17-20: the first result naming the pair decides; none: False.
FindLoop(results, action, resource) ==
    IF results = <<>> THEN Value("False")
    ELSE IF "EvalActionName" \notin DOMAIN Head(results)
    THEN Raise("KeyError")
    ELSE IF action = Head(results).EvalActionName
            /\ "EvalResourceName" \notin DOMAIN Head(results)
    THEN Raise("KeyError")
    ELSE IF FindMatches(Head(results), action, resource)
    THEN IF "EvalDecision" \in DOMAIN Head(results)
         THEN Value(Bool(Head(results).EvalDecision = "allowed"))
         ELSE Raise("KeyError")
    ELSE FindLoop(Tail(results), action, resource)

\* util.py:12-20.
findInEvalResults(response, action, resource) ==
    IF "EvaluationResults" \in DOMAIN response
    THEN FindLoop(response.EvaluationResults, action, resource)
    ELSE Raise("KeyError")

\* The evaluation results a response may hold.
FindResults ==
    [EvalActionName : 1..2, EvalResourceName : {Wildcard, 1},
     EvalDecision : {"allowed", "implicitDeny", "explicitDeny"}]

\* The responses findInEvalResults is called with.
FindResponses ==
    {[ResponseMetadata |-> <<>>]} \cup
    UNION {[EvaluationResults : [1..n -> FindResults]] : n \in 0..MaxEvals}

\* findInEvalResults is called with a response and a pair.
InitFind ==
    /\ op = "findInEvalResults"
    /\ args \in [response : FindResponses, action : 1..2,
                 resource : {Wildcard, 1}]
    /\ remote = [policy |-> "allowAll", shape |-> "full"]
    /\ pc = "start"
    /\ resourceList = <<>>
    /\ ai = 0
    /\ chunks = <<>>
    /\ ci = 0
    /\ x = 0
    /\ y = 0
    /\ context_response = [ContextKeyNames |-> <<>>]
    /\ context_entries = <<>>
    /\ result = <<>>
    /\ calls = <<>>
    /\ slept = 0
    /\ outcome = "running"
    /\ error = <<>>
    /\ value = "unset"

\* util.py:12-20: the call.
FindCall ==
    /\ op = "findInEvalResults" /\ pc = "start"
    /\ LET val == findInEvalResults(args.response, args.action, args.resource)
       IN  IF val.err # ""
           THEN RaiseOut(val.err, <<>>) /\ UNCHANGED value
           ELSE /\ value' = val.val
                /\ outcome' = "returned"
                /\ pc' = "done"
                /\ UNCHANGED <<result, error>>
    /\ UNCHANGED <<op, args, x, y, remote, resourceList, ai, chunks, ci,
                   context_response, context_entries, calls, slept>>

NextFind == FindCall

SpecFind == InitFind /\ [][NextFind]_vars

\* The results of a response give each pair they name one decision.
OneDecisionPerPair(results) ==
    \A m, n \in 1..Len(results) :
        (results[m].EvalActionName = results[n].EvalActionName
            /\ results[m].EvalResourceName = results[n].EvalResourceName)
        => results[m].EvalDecision = results[n].EvalDecision

ModeOf(call) ==
    IF Len(call.request.ResourceArns) = 1
    THEN _extract_results(call.response)
    ELSE _extract_resource_specific_results(call.response)

\* The tuples the answered calls of the action in hand give by that rule.
ModeTuples == Concat([j \in 1..Len(OkCalls) |-> ModeOf(OkCalls[j]).val])

\* C16: every chunk test_node_access sends is extracted in single-resource
\* mode if and only if it holds exactly one resource, in multi-resource mode
\* otherwise: the result ends with what that rule gives for the answered
\* calls, and an extraction fails exactly as that rule's extraction does.
C16_ExtractionMode ==
    (op = "test_node_access" /\ OkCalls # <<>>) =>
        /\ outcome \in {"running", "returned"} =>
              /\ \A j \in 1..Len(OkCalls) : ModeOf(OkCalls[j]).err = ""
              /\ Len(result) >= Len(ModeTuples)
              /\ SubSeq(result, Len(result) - Len(ModeTuples) + 1,
                        Len(result)) = ModeTuples
        /\ outcome \in {"KeyError", "IndexError"} =>
              /\ \A j \in 1..(Len(OkCalls) - 1) : ModeOf(OkCalls[j]).err = ""
              /\ ModeOf(OkCalls[Len(OkCalls)]).err = outcome
        /\ outcome \notin {"KeyError", "IndexError"} =>
              \A j \in 1..Len(OkCalls) : ModeOf(OkCalls[j]).err = ""

\* C16's case: one action on 21 resources against responses that hold one
\* resource-specific result too few: 19 tuples from the first chunk's nested
\* results, then the tuple of the 21st resource from the top-level fields.
C16_Witness ==
    /\ op = "test_node_access" /\ outcome = "returned"
    /\ remote.shape = "terse"
    /\ Len(args.actionList.list) = 1
    /\ Len(resourceList) = 21
    /\ SentSizes = <<20, 1>>
    /\ Len(result) = 20
    /\ result[19][2] = 19
    /\ result[20][2] = 21

(* ----------------------- the chunking loop, stepped --------------------- *)

\* The list the chunking loop runs over: resourceList or candidates.
ChunkedList ==
    IF op = "test_node_access" THEN args.resourceList.list
    ELSE args.candidates

\* util.py:45-49 and 131-134: a list longer than ChunkSize, the list of
\* chunks empty, x = 0 and y = 20.
InitChunk ==
    /\ op \in Chunked
    /\ args \in Inputs(op)
    /\ op = "test_node_access" =>
          /\ args.actionList = Some(<<1>>)
          /\ ~ args.resourceList.none
    /\ Len(ChunkedList) > ChunkSize
    /\ remote = [policy |-> "allowAll", shape |-> "full"]
    /\ pc = "while"
    /\ resourceList = <<>>
    /\ ai = 0
    /\ chunks = <<>>
    /\ ci = 0
    /\ x = 0
    /\ y = ChunkSize
    /\ context_response = [ContextKeyNames |-> <<>>]
    /\ context_entries = <<>>
    /\ result = <<>>
    /\ calls = <<>>
    /\ slept = 0
    /\ outcome = "running"
    /\ error = <<>>
    /\ value = "unset"

\* util.py:50-57 and 135-142: one turn of the while loop.
WhileStep ==
    /\ pc = "while"
    /\ x # Len(ChunkedList)
    /\ chunks' = Append(chunks,
                        Slice(ChunkedList, x, ClampY(y, Len(ChunkedList))))
    /\ x' = NextX(x, Len(ChunkedList))
    /\ y' = ClampY(y, Len(ChunkedList)) + ChunkSize
    /\ UNCHANGED <<op, args, remote, pc, resourceList, ai, ci,
                   context_response, context_entries, result, calls, slept,
                   outcome, error, value>>

\* util.py:50 and 135: the loop is left when x equals the length.
WhileExit ==
    /\ pc = "while"
    /\ x = Len(ChunkedList)
    /\ pc' = "chunked"
    /\ UNCHANGED <<op, args, x, y, remote, resourceList, ai, chunks, ci,
                   context_response, context_entries, result, calls, slept,
                   outcome, error, value>>

NextChunk ==
    \/ WhileStep
    \/ WhileExit

\* The loop runs in one thread that is never held up.
SpecChunk == InitChunk /\ [][NextChunk]_vars /\ WF_vars(NextChunk)

\* The loop has been left with ceil(len/20) chunks, none empty: the chunks
\* the calls are made with.
ChunkedRight ==
    /\ pc = "chunked"
    /\ Len(chunks) = CeilDiv(Len(ChunkedList), ChunkSize)
    /\ \A j \in 1..Len(chunks) : chunks[j] # <<>>
    /\ chunks = ChunkList(ChunkedList)

\* C17: for every list longer than 20, exact multiples of 20 included, the
\* chunking loop terminates, and has then produced exactly ceil(len/20)
\* chunks, none of them empty.
C17_ChunkingTerminates == <>ChunkedRight

\* C17's case: a list of 40 has been cut in two chunks of 20.
C17_Witness ==
    /\ pc = "chunked"
    /\ Len(ChunkedList) = 2 * ChunkSize
    /\ x = 2 * ChunkSize
    /\ Len(chunks) = 2
    /\ Len(chunks[2]) = ChunkSize

\* The keys the extraction of an answered call reads from each evaluation
\* result: by the number of resources for test_node_access, the nested
\* results for testMassPass.
ExpectedKeys(call) ==
    IF op = "testMassPass" THEN {"ResourceSpecificResults"}
    ELSE IF Len(call.request.ResourceArns) = 1
    THEN {"EvalActionName", "EvalResourceName", "EvalDecision"}
    ELSE {"EvalActionName", "ResourceSpecificResults"}

\* An answered call whose response lacks a field its extraction expects:
\* the list of evaluation results, one of the keys of a result read, or,
\* for testMassPass, the first result itself.
LacksFields(call) ==
    /\ call.code = <<>>
    /\ \/ "EvaluationResults" \notin DOMAIN call.response
       \/ LET ers == call.response.EvaluationResults
          IN  IF op = "testMassPass"
              THEN ers = <<>> \/ ~ (ExpectedKeys(call) \subseteq DOMAIN ers[1])
              ELSE \E i \in 1..Len(ers) :
                      ~ (ExpectedKeys(call) \subseteq DOMAIN ers[i])

\* C18: a successful response lacking the fields the extractor expects is a
\* local error that is not retried: it is raised to the caller, nothing
\* sleeps for it as for throttling, and no simulate call follows it.
C18_MalformedResponse ==
    op \in Chunked =>
        \A i \in 1..Len(calls) :
            LacksFields(calls[i]) =>
                /\ i = Len(calls)
                /\ pc = "done"
                /\ outcome \in {"KeyError", "IndexError"}
                /\ result = <<>>
                /\ slept = Throttled(calls)

\* C18's case: the first of two actions on 21 resources, the responses
\* without EvalDecision: the first chunk is extracted, the one-resource
\* chunk's extraction fails and the second action is never sent.
C18_Witness ==
    /\ op = "test_node_access" /\ outcome = "KeyError" /\ pc = "done"
    /\ remote.shape = "noDecision"
    /\ Len(args.actionList.list) = 2
    /\ ai = 1
    /\ SentSizes = <<20, 1>>
    /\ ~ LacksFields(OkCalls[1])
    /\ LacksFields(OkCalls[2])
    /\ slept > 0

\* A call the remote refused with an error that is not throttling.
RefusedForGood(call) ==
    /\ call.code # <<>>
    /\ ~ Contains(<<"T","h","r","o","t","t">>, call.code)

\* C19: a remote error other than throttling on any call of test_node_access
\* or testMassPass, whatever the action and the chunk, ends the operation:
\* no simulate call follows it and the caller gets the error and none of
\* the tuples or candidates gathered from the calls before.
C19_ErrorAborts ==
    op \in Chunked =>
        \A i \in 1..Len(calls) :
            RefusedForGood(calls[i]) =>
                /\ i = Len(calls)
                /\ pc = "done"
                /\ outcome = "ClientError"
                /\ error = calls[i].code
                /\ result = <<>>
                /\ value = "unset"

\* C19's case: the second action's second chunk is refused after the first
\* action's calls and the second action's first chunk were answered.
C19_Witness ==
    /\ op = "test_node_access" /\ outcome = "ClientError" /\ pc = "done"
    /\ remote = [policy |-> "allowAll", shape |-> "full"]
    /\ ai = 2
    /\ Len(calls) = 2
    /\ calls[1].code = <<>>
    /\ Len(_extract_resource_specific_results(calls[1].response).val) = 20
    /\ RefusedForGood(calls[2])
    /\ result = <<>>

\* C20: whatever the candidates and the responses, the list testMassPass
\* has gathered is a sub-sequence of the candidate list: it is no longer
\* than the input and takes its entries from strictly rising positions of
\* the input, so that no position gives more than one entry.
C20_ResultSubsequence ==
    op = "testMassPass" =>
        /\ Len(result) <= Len(args.candidates)
        /\ \A m \in 1..Len(result) :
              /\ result[m].id \in 1..Len(args.candidates)
              /\ result[m] = args.candidates[result[m].id]
        /\ \A m, n \in 1..Len(result) :
              m < n => result[m].id < result[n].id

=============================================================================
